---- MODULE Spec2Model ----
(***************************************************************************)
(* pngme: PNG chunk types, chunk records and the encode/remove commands.   *)
(*                                                                         *)
(* A u8 is a number in 0..255.  A u32 is a pair <<hi, lo>> of 16-bit       *)
(* halves (value hi * 65536 + lo), so that every 32-bit value, CRCs        *)
(* included, is representable.  A Rust String is a sequence of Unicode     *)
(* code points; as_bytes / into_bytes is its UTF-8 encoding.               *)
(***************************************************************************)
EXTENDS Integers, Sequences, FiniteSets, TLC

Byte == 0..255

(***************************************************************************)
(* u32 arithmetic                                                          *)
(***************************************************************************)
RECURSIVE XorBits(_, _, _)
XorBits(a, b, n) ==
    IF n = 0 THEN 0
    ELSE ((a + b) % 2) + 2 * XorBits(a \div 2, b \div 2, n - 1)

XorTab == [a \in Byte |-> [b \in Byte |-> XorBits(a, b, 8)]]

Xor8(a, b) == XorTab[a][b]

Xor16(a, b) == Xor8(a \div 256, b \div 256) * 256 + Xor8(a % 256, b % 256)

U32Xor(x, y) == <<Xor16(x[1], y[1]), Xor16(x[2], y[2])>>

U32Shr1(x) == <<x[1] \div 2, (x[1] % 2) * 32768 + (x[2] \div 2)>>

U32Shr8(x) == <<x[1] \div 256, (x[1] % 256) * 256 + (x[2] \div 256)>>

\* `n as u32` for a usize n: truncation to 32 bits
as_u32(n) == <<(n \div 65536) % 65536, n % 65536>>

\* the little-endian byte order
to_be_bytes_le(x) == <<x[2] % 256, x[2] \div 256, x[1] % 256, x[1] \div 256>>

\* u32::to_be_bytes
to_be_bytes(x) == <<x[1] \div 256, x[1] % 256, x[2] \div 256, x[2] % 256>>

\* u32::from_be_bytes
from_be_bytes(b) == <<b[1] * 256 + b[2], b[3] * 256 + b[4]>>

\* (x as usize) <= m, for a u32 x and a number m
U32Leq(x, m) ==
    /\ m >= 0
    /\ \/ x[1] < m \div 65536
       \/ x[1] = m \div 65536 /\ x[2] <= m % 65536

\* x as usize
as_usize(x) == x[1] * 65536 + x[2]

(***************************************************************************)
(* CRC-32/ISO-HDLC: reflected polynomial 0xEDB88320, init and xorout       *)
(* 0xFFFFFFFF, reflected input and output.                                 *)
(***************************************************************************)
CrcPoly == <<60856, 33568>>

CrcInit == <<65535, 65535>>

CrcRound(c) ==
    IF c[2] % 2 = 1 THEN U32Xor(U32Shr1(c), CrcPoly) ELSE U32Shr1(c)

RECURSIVE CrcRounds(_, _)
CrcRounds(c, n) == IF n = 0 THEN c ELSE CrcRounds(CrcRound(c), n - 1)

CrcTable == [i \in Byte |-> CrcRounds(<<0, i>>, 8)]

CrcUpdate(c, b) == U32Xor(CrcTable[Xor8(c[2] % 256, b)], U32Shr8(c))

RECURSIVE CrcFold(_, _, _)
CrcFold(c, bytes, i) ==
    IF i > Len(bytes) THEN c ELSE CrcFold(CrcUpdate(c, bytes[i]), bytes, i + 1)

\* ISO_3309.checksum
checksum(bytes) == U32Xor(CrcFold(CrcInit, bytes, 1), CrcInit)

(***************************************************************************)
(* Strings                                                                 *)
(***************************************************************************)
\* the UTF-8 encoding of one char
Utf8Char(cp) ==
    IF cp < 128 THEN <<cp>>
    ELSE IF cp < 2048 THEN <<192 + (cp \div 64), 128 + (cp % 64)>>
    ELSE IF cp < 65536
         THEN <<224 + (cp \div 4096), 128 + ((cp \div 64) % 64), 128 + (cp % 64)>>
    ELSE <<240 + (cp \div 262144), 128 + ((cp \div 4096) % 64),
           128 + ((cp \div 64) % 64), 128 + (cp % 64)>>

\* str::as_bytes, String::into_bytes
RECURSIVE as_bytes_str(_)
as_bytes_str(s) ==
    IF s = <<>> THEN <<>> ELSE Utf8Char(Head(s)) \o as_bytes_str(Tail(s))

(***************************************************************************)
(* chunk_type.rs                                                           *)
(***************************************************************************)
Ok(v) == [kind |-> "ok", val |-> v]

Err(e) == [kind |-> "err", err |-> e]

Panic == [kind |-> "panic"]

None == [kind |-> "none"]

is_valid_b_offbyone(val) ==
    (65 <= val /\ val < 90) \/ (97 <= val /\ val <= 122)

is_valid_b(val) ==
    (65 <= val /\ val <= 90) \/ (97 <= val /\ val <= 122)

get_fifth_bit_shift4(val) == ((val \div 16) % 2) # 0

get_fifth_bit(val) == ((val \div 32) % 2) # 0

has_valid_bytes(val) ==
    /\ is_valid_b(val[1]) /\ is_valid_b(val[2])
    /\ is_valid_b(val[3]) /\ is_valid_b(val[4])

\* struct ChunkType(u8, u8, u8, u8)
ChunkType(a, b, c, d) == [f0 |-> a, f1 |-> b, f2 |-> c, f3 |-> d]

bytes(self) == <<self.f0, self.f1, self.f2, self.f3>>

is_critical(self) == ~get_fifth_bit(self.f0)

is_public(self) == ~get_fifth_bit(self.f1)

is_reserved_bit_valid(self) == ~get_fifth_bit(self.f2)

is_safe_to_copy(self) == get_fifth_bit(self.f3)

is_valid(self) == has_valid_bytes(bytes(self)) /\ is_reserved_bit_valid(self)

\* impl TryFrom<[u8; 4]> for ChunkType
ChunkType_try_from(value) ==
    IF has_valid_bytes(value)
    THEN Ok(ChunkType(value[1], value[2], value[3], value[4]))
    ELSE Err("InvalidChunkTypeError")

\* impl FromStr for ChunkType: assert_eq!(bytes.len(), 4) panics
ChunkType_from_str(s) ==
    LET b == as_bytes_str(s) IN
    IF Len(b) # 4 THEN Panic
    ELSE ChunkType_try_from(<<b[1], b[2], b[3], b[4]>>)

\* impl Display for ChunkType: str::from_utf8 of the four bytes, which are
\* ASCII letters, so each byte decodes to the char of the same code point
ChunkType_to_string(self) ==
    LET b == bytes(self) IN [i \in 1..4 |-> b[i]]

(***************************************************************************)
(* chunk.rs                                                                *)
(***************************************************************************)
is_valid_crc_low_half(chunk_type, data, crc) ==
    checksum(bytes(chunk_type) \o data)[2] = crc[2]

is_valid_crc(chunk_type, data, crc) ==
    checksum(bytes(chunk_type) \o data) = crc

Chunk_new_crc_of_data(chunk_type, data) ==
    [length |-> as_u32(Len(data)), chunk_type |-> chunk_type,
     data |-> data, crc |-> checksum(data)]

Chunk_new(chunk_type, data) ==
    [length |-> as_u32(Len(data)), chunk_type |-> chunk_type,
     data |-> data, crc |-> checksum(bytes(chunk_type) \o data)]

Chunk_as_bytes(self) ==
    to_be_bytes(self.length) \o bytes(self.chunk_type)
        \o self.data \o to_be_bytes(self.crc)

\* the variant that reads the CRC from the four bytes after the payload and
\* ignores whatever follows them
Chunk_try_from_prefix(value) ==
    IF Len(value) < 4 THEN Panic
    ELSE LET length == from_be_bytes(SubSeq(value, 1, 4)) IN
    IF Len(value) < 8 THEN Panic
    ELSE LET chunk_type == ChunkType_try_from(SubSeq(value, 5, 8)) IN
    IF chunk_type.kind = "err" THEN chunk_type
    ELSE IF ~U32Leq(length, Len(value) - 12) THEN Panic
    ELSE LET n    == as_usize(length)
             data == SubSeq(value, 9, 8 + n)
             crc  == from_be_bytes(SubSeq(value, 9 + n, 12 + n))
         IN IF ~is_valid_crc(chunk_type.val, data, crc)
            THEN Err("InvalidCrcError")
            ELSE Ok([length |-> length, chunk_type |-> chunk_type.val,
                     data |-> data, crc |-> crc])

\* impl TryFrom<&[u8]> for Chunk.  The slices value[..4], value[4..8] and
\* value[8..8+length] panic when they reach past the end of value; the
\* conversion of value[8+length..] to [u8; 4] fails with TryFromSliceError
\* unless exactly four bytes are left.
Chunk_try_from(value) ==
    IF Len(value) < 4 THEN Panic
    ELSE LET length == from_be_bytes(SubSeq(value, 1, 4)) IN
    IF Len(value) < 8 THEN Panic
    ELSE LET chunk_type == ChunkType_try_from(SubSeq(value, 5, 8)) IN
    IF chunk_type.kind = "err" THEN chunk_type
    ELSE IF ~U32Leq(length, Len(value) - 8) THEN Panic
    ELSE LET n         == as_usize(length)
             data      == SubSeq(value, 9, 8 + n)
             crc_bytes == SubSeq(value, 9 + n, Len(value))
         IN IF Len(crc_bytes) # 4 THEN Err("TryFromSliceError")
            ELSE LET crc == from_be_bytes(crc_bytes) IN
                 IF ~is_valid_crc(chunk_type.val, data, crc)
                 THEN Err("InvalidCrcError")
                 ELSE Ok([length |-> length, chunk_type |-> chunk_type.val,
                          data |-> data, crc |-> crc])

(***************************************************************************)
(* The png module (Png, ChunkNotFoundError) used by commands.rs            *)
(***************************************************************************)
STANDARD_HEADER == <<137, 80, 78, 71, 13, 10, 26, 10>>

\* parse chunk after chunk until the buffer is exhausted
RECURSIVE ParseChunks(_, _)
ParseChunks(rest, acc) ==
    IF rest = <<>> THEN Ok([chunks |-> acc])
    ELSE IF Len(rest) < 4 THEN Err("TruncatedInput")
    ELSE LET length == from_be_bytes(SubSeq(rest, 1, 4)) IN
    IF ~U32Leq(length, Len(rest) - 12) THEN Err("TruncatedInput")
    ELSE LET n == 12 + as_usize(length)
             c == Chunk_try_from(SubSeq(rest, 1, n))
         IN IF c.kind # "ok" THEN c
            ELSE ParseChunks(SubSeq(rest, n + 1, Len(rest)), Append(acc, c.val))

Png_try_from(value) ==
    IF Len(value) < 8 \/ SubSeq(value, 1, 8) # STANDARD_HEADER
    THEN Err("InvalidSignature")
    ELSE ParseChunks(SubSeq(value, 9, Len(value)), <<>>)

\* the possible results of append_chunk: the record goes immediately before
\* the last element; on an empty container the position before the final
\* element does not exist, and the call either panics or inserts at 0
append_chunk(png, chunk) ==
    LET n == Len(png.chunks) IN
    IF n = 0 THEN {Panic, Ok([chunks |-> <<chunk>>])}
    ELSE {Ok([chunks |-> SubSeq(png.chunks, 1, n - 1)
                            \o <<chunk>> \o <<png.chunks[n]>>])}

\* the indices of the chunks whose type reads as the text ct
Matches(png, ct) ==
    {i \in 1..Len(png.chunks) :
        ChunkType_to_string(png.chunks[i].chunk_type) = ct}

remove_chunk(png, ct) ==
    IF Matches(png, ct) = {} THEN Err("ChunkNotFoundError")
    ELSE LET i == CHOOSE k \in Matches(png, ct) :
                     \A j \in Matches(png, ct) : k <= j
             n == Len(png.chunks)
         IN Ok([png     |-> [chunks |-> SubSeq(png.chunks, 1, i - 1)
                                          \o SubSeq(png.chunks, i + 1, n)],
                removed |-> png.chunks[i]])

RECURSIVE ConcatChunks(_)
ConcatChunks(chunks) ==
    IF chunks = <<>> THEN <<>>
    ELSE Chunk_as_bytes(Head(chunks)) \o ConcatChunks(Tail(chunks))

Png_as_bytes(png) == STANDARD_HEADER \o ConcatChunks(png.chunks)

(***************************************************************************)
(* commands.rs.  A command maps the bytes of the file at file_path and its *)
(* arguments to the set of its possible outcomes: its result, whether      *)
(* fs::write was called and with which bytes, the Png it held in memory    *)
(* and the chunk it removed.                                               *)
(***************************************************************************)
Outcome(res, wrote, out, mem, removed) ==
    [res |-> res, wrote |-> wrote, out |-> out, mem |-> mem, removed |-> removed]

get_png(file_bytes) == Png_try_from(file_bytes)

\* the variant that writes the file before it appends the chunk
encode_writes_before_append(file_bytes, ct, msg, of) ==
    LET png == get_png(file_bytes) IN
    IF png.kind # "ok" THEN {Outcome(png, FALSE, <<>>, None, None)}
    ELSE LET chunk_type == ChunkType_from_str(ct) IN
    IF chunk_type.kind # "ok"
    THEN {Outcome(chunk_type, FALSE, <<>>, None, None)}
    ELSE LET secret_chunk == Chunk_new(chunk_type.val, as_bytes_str(msg)) IN
         {IF a.kind # "ok" THEN Outcome(a, FALSE, <<>>, None, None)
          ELSE IF of.kind = "ok"
               THEN Outcome(Ok(<<>>), TRUE, Png_as_bytes(png.val), a, None)
               ELSE Outcome(Ok(<<>>), FALSE, <<>>, a, None)
          : a \in append_chunk(png.val, secret_chunk)}

\* of is None or Ok(path); the bytes go to that path
encode(file_bytes, ct, msg, of) ==
    LET png == get_png(file_bytes) IN
    IF png.kind # "ok" THEN {Outcome(png, FALSE, <<>>, None, None)}
    ELSE LET chunk_type == ChunkType_from_str(ct) IN
    IF chunk_type.kind # "ok"
    THEN {Outcome(chunk_type, FALSE, <<>>, None, None)}
    ELSE LET secret_chunk == Chunk_new(chunk_type.val, as_bytes_str(msg)) IN
         {IF a.kind # "ok" THEN Outcome(a, FALSE, <<>>, None, None)
          ELSE IF of.kind = "ok"
               THEN Outcome(Ok(<<>>), TRUE, Png_as_bytes(a.val), a, None)
               ELSE Outcome(Ok(<<>>), FALSE, <<>>, a, None)
          : a \in append_chunk(png.val, secret_chunk)}

\* the variant that writes the file before it looks at remove_chunk's result
remove_writes_first(file_bytes, ct) ==
    LET png == get_png(file_bytes) IN
    IF png.kind # "ok" THEN {Outcome(png, FALSE, <<>>, None, None)}
    ELSE LET r == remove_chunk(png.val, ct) IN
         IF r.kind # "ok"
         THEN {Outcome(r, TRUE, Png_as_bytes(png.val), None, None)}
         ELSE {Outcome(Ok(<<>>), TRUE, Png_as_bytes(r.val.png),
                       Ok(r.val.png), Ok(r.val.removed))}

remove(file_bytes, ct) ==
    LET png == get_png(file_bytes) IN
    IF png.kind # "ok" THEN {Outcome(png, FALSE, <<>>, None, None)}
    ELSE LET r == remove_chunk(png.val, ct) IN
         IF r.kind # "ok" THEN {Outcome(r, FALSE, <<>>, None, None)}
         ELSE {Outcome(Ok(<<>>), TRUE, Png_as_bytes(r.val.png),
                       Ok(r.val.png), Ok(r.val.removed))}

(***************************************************************************)
(* Bounds and sample inputs                                                *)
(***************************************************************************)
MaxStrLen == 5

MaxData == 2

MaxChunks == 4

SeqsUpTo(S, n) == UNION {[1..k -> S] : k \in 0..n}

\* bytes around the limits of the two letter ranges, and the letters of
\* "RuSt" and "Rust"
ByteSamples == {0, 49, 64, 65, 82, 83, 90, 91, 96, 97, 115, 116, 117, 122, 123, 255}

\* the chars 1 R S s t u and the two-byte char e-acute
CharSamples == {49, 82, 83, 115, 116, 117, 233}

IHDR == <<73, 72, 68, 82>>

IEND == <<73, 69, 78, 68>>

tEXt == <<116, 69, 88, 116>>

ruSt == <<114, 117, 83, 116>>

RuSt == <<82, 117, 83, 116>>

TypeSamples == {RuSt, ruSt, IEND, tEXt}

DataBytes == {0, 97, 255}

\* chunk type arguments: two valid type texts, "Ru1t" and the 3-char "RuS"
TypeTexts == {ruSt, IEND, <<82, 117, 49, 116>>, <<82, 117, 83>>}

RemoveTexts == TypeTexts \cup {IHDR}

\* the messages "" and "a"
Messages == {<<>>, <<97>>}

MkChunk(t, d) == Chunk_new(ChunkType_try_from(t).val, d)

\* PNG files whose last chunk is IEND
InitChunkSeqs ==
    { <<MkChunk(IEND, <<>>)>>,
      <<MkChunk(IHDR, <<0>>), MkChunk(IEND, <<>>)>>,
      <<MkChunk(IHDR, <<0>>), MkChunk(tEXt, <<102>>), MkChunk(IEND, <<>>)>> }

(***************************************************************************)
(* State                                                                   *)
(***************************************************************************)
VARIABLES
    tinput,     \* the argument of a ChunkType constructor call
    tresult,    \* what the constructor returned
    tprops,     \* the predicates read off the constructed ChunkType
    cpc,        \* how far the chunk under test has got
    cinput,     \* the type bytes and payload given to Chunk::new
    chunk,      \* the Chunk returned by Chunk::new
    buf,        \* the buffer handed to Chunk::try_from
    tamper,     \* what was done to the buffer after as_bytes
    cresult,    \* what Chunk::try_from returned
    file,       \* the bytes of the PNG file at file_path
    last        \* the last command run on the file and its outcome

tvars == <<tinput, tresult, tprops>>

cvars == <<cpc, cinput, chunk, buf, tamper, cresult>>

pvars == <<file, last>>

vars == <<tinput, tresult, tprops, cpc, cinput, chunk, buf, tamper, cresult,
          file, last>>

TIdle == tinput = None /\ tresult = None /\ tprops = None

CIdle ==
    /\ cpc = "idle" /\ cinput = None /\ chunk = None
    /\ buf = <<>> /\ tamper = None /\ cresult = None

PIdle == file = <<>> /\ last = [op |-> "none"]

(***************************************************************************)
(* ChunkType construction                                                  *)
(***************************************************************************)
InitType ==
    /\ tinput \in {[kind |-> "bytes", val |-> v] : v \in [1..4 -> ByteSamples]}
             \cup {[kind |-> "str", val |-> v] : v \in SeqsUpTo(CharSamples, MaxStrLen)}
    /\ tresult = None
    /\ tprops = None
    /\ CIdle /\ PIdle

CallTryFrom ==
    /\ tinput.kind = "bytes" /\ tresult = None
    /\ tresult' = ChunkType_try_from(tinput.val)
    /\ UNCHANGED <<tinput, tprops, cvars, pvars>>

CallFromStr ==
    /\ tinput.kind = "str" /\ tresult = None
    /\ tresult' = ChunkType_from_str(tinput.val)
    /\ UNCHANGED <<tinput, tprops, cvars, pvars>>

QueryProps ==
    /\ tresult.kind = "ok" /\ tprops = None
    /\ tprops' = [kind     |-> "props",
                  critical |-> is_critical(tresult.val),
                  public   |-> is_public(tresult.val),
                  reserved |-> is_reserved_bit_valid(tresult.val),
                  safe     |-> is_safe_to_copy(tresult.val),
                  valid    |-> is_valid(tresult.val)]
    /\ UNCHANGED <<tinput, tresult, cvars, pvars>>

NextType == CallTryFrom \/ CallFromStr \/ QueryProps

SpecType == InitType /\ [][NextType]_vars

(***************************************************************************)
(* Chunk::new, as_bytes and try_from                                       *)
(***************************************************************************)
InitChunk ==
    /\ cpc = "start"
    /\ cinput \in {[t |-> t, d |-> d] :
                      t \in TypeSamples, d \in SeqsUpTo(DataBytes, MaxData)}
    /\ chunk = None /\ buf = <<>> /\ tamper = None /\ cresult = None
    /\ TIdle /\ PIdle

New ==
    /\ cpc = "start"
    /\ chunk' = Chunk_new(ChunkType_try_from(cinput.t).val, cinput.d)
    /\ cpc' = "new"
    /\ UNCHANGED <<cinput, buf, tamper, cresult, tvars, pvars>>

Serialize ==
    /\ cpc = "new"
    /\ buf' = Chunk_as_bytes(chunk)
    /\ cpc' = "bytes"
    /\ UNCHANGED <<cinput, chunk, tamper, cresult, tvars, pvars>>

Pow2(k) == IF k = 0 THEN 1 ELSE IF k = 1 THEN 2 ELSE IF k = 2 THEN 4
           ELSE IF k = 3 THEN 8 ELSE IF k = 4 THEN 16 ELSE IF k = 5 THEN 32
           ELSE IF k = 6 THEN 64 ELSE 128

\* one bit of the buffer is flipped on its way to the parser
FlipBit ==
    /\ cpc = "bytes"
    /\ \E i \in 1..Len(buf), k \in 0..7 :
          /\ buf' = [buf EXCEPT ![i] = Xor8(buf[i], Pow2(k))]
          /\ tamper' = [kind |-> "flip", idx |-> i, bit |-> k]
    /\ cpc' = "tampered"
    /\ UNCHANGED <<cinput, chunk, cresult, tvars, pvars>>

\* only the first n bytes of the buffer reach the parser
Truncate ==
    /\ cpc = "bytes"
    /\ \E n \in 0..(Len(buf) - 1) :
          /\ buf' = SubSeq(buf, 1, n)
          /\ tamper' = [kind |-> "truncate", len |-> n]
    /\ cpc' = "tampered"
    /\ UNCHANGED <<cinput, chunk, cresult, tvars, pvars>>

\* the buffer is followed by more bytes: a stray byte or a whole next chunk
Extend ==
    /\ cpc = "bytes"
    /\ \E extra \in {<<b>> : b \in DataBytes}
                       \cup {Chunk_as_bytes(MkChunk(IEND, <<>>))} :
          /\ buf' = buf \o extra
          /\ tamper' = [kind |-> "extend", extra |-> extra]
    /\ cpc' = "tampered"
    /\ UNCHANGED <<cinput, chunk, cresult, tvars, pvars>>

Parse ==
    /\ cpc \in {"bytes", "tampered"}
    /\ cresult' = Chunk_try_from(buf)
    /\ cpc' = "parsed"
    /\ UNCHANGED <<cinput, chunk, buf, tamper, tvars, pvars>>

NextChunk == New \/ Serialize \/ FlipBit \/ Truncate \/ Extend \/ Parse

SpecChunk == InitChunk /\ [][NextChunk]_vars

(***************************************************************************)
(* The encode and remove commands on one PNG file                          *)
(***************************************************************************)
Init ==
    /\ file \in {Png_as_bytes([chunks |-> cs]) : cs \in InitChunkSeqs}
    /\ last = [op |-> "none"]
    /\ TIdle /\ CIdle

\* a successful encode that wrote the file, remembered by the remove that
\* directly follows it
JustEncoded ==
    IF last.op = "encode" /\ last.res.kind = "ok" /\ last.wrote
    THEN [kind |-> "encode", ct |-> last.ct, msg |-> last.msg, pre |-> last.pre]
    ELSE None

\* encode file_path chunk_type message [output_file], with output_file
\* absent or file_path itself
Encode ==
    /\ LET png == get_png(file) IN
          png.kind = "ok" => Len(png.val.chunks) < MaxChunks
    /\ \E ct \in TypeTexts, msg \in Messages, of \in {None, Ok("file_path")} :
          \E o \in encode(file, ct, msg, of) :
             /\ file' = IF o.wrote THEN o.out ELSE file
             /\ last' = [op |-> "encode", ct |-> ct, msg |-> msg, of |-> of,
                         pre |-> file, res |-> o.res, wrote |-> o.wrote,
                         mem |-> o.mem, removed |-> o.removed, after |-> None]
    /\ UNCHANGED <<tvars, cvars>>

\* remove file_path chunk_type
Remove ==
    /\ \E ct \in RemoveTexts :
          \E o \in remove(file, ct) :
             /\ file' = IF o.wrote THEN o.out ELSE file
             /\ last' = [op |-> "remove", ct |-> ct, msg |-> <<>>, of |-> None,
                         pre |-> file, res |-> o.res, wrote |-> o.wrote,
                         mem |-> o.mem, removed |-> o.removed,
                         after |-> JustEncoded]
    /\ UNCHANGED <<tvars, cvars>>

Next == Encode \/ Remove

Spec == Init /\ [][Next]_vars

(***************************************************************************)
(* Properties of SpecChunk                                                 *)
(***************************************************************************)
\* C1: parsing the serialization of Chunk::new(t, d) succeeds and returns a
\* chunk with the length, chunk_type, data and crc of Chunk::new(t, d), for
\* every letter type t and every payload d, the empty one included.
C1_RoundTrip ==
    (cpc = "parsed" /\ tamper = None) =>
        /\ cresult.kind = "ok"
        /\ cresult.val.length = chunk.length
        /\ cresult.val.chunk_type = chunk.chunk_type
        /\ cresult.val.data = chunk.data
        /\ cresult.val.crc = chunk.crc
        /\ bytes(cresult.val.chunk_type) = cinput.t
        /\ cresult.val.data = cinput.d

C1_Witness ==
    /\ cpc = "parsed" /\ tamper = None /\ cresult.kind = "ok"
    /\ cinput.t = RuSt /\ Len(cinput.d) > 0

\* a buffer of 12 + L bytes whose first four bytes read L and whose next
\* four are letters
Framed(b) ==
    /\ Len(b) >= 12
    /\ from_be_bytes(SubSeq(b, 1, 4)) = as_u32(Len(b) - 12)
    /\ \A i \in 5..8 : b[i] \in (65..90) \cup (97..122)

\* C2: on a correctly framed buffer whose stored CRC differs from the CRC-32
\* of type bytes ++ payload, try_from returns InvalidCrcError; in particular
\* it does so when one bit of a serialized record's payload was flipped.
C2_CrcIntegrity ==
    cpc = "parsed" =>
        /\ ( /\ Framed(buf)
             /\ from_be_bytes(SubSeq(buf, Len(buf) - 3, Len(buf)))
                  # checksum(SubSeq(buf, 5, Len(buf) - 4)) )
              => cresult = Err("InvalidCrcError")
        /\ (tamper.kind = "flip" /\ tamper.idx \in 9..(8 + Len(cinput.d)))
              => cresult = Err("InvalidCrcError")

C2_Witness ==
    /\ cpc = "parsed" /\ tamper.kind = "flip"
    /\ tamper.idx \in 9..(8 + Len(cinput.d))
    /\ cresult = Err("InvalidCrcError")

\* the declared length exceeds the payload bytes present, or the buffer is
\* shorter than the 8-byte header
Truncated(b) ==
    \/ Len(b) < 8
    \/ ~U32Leq(from_be_bytes(SubSeq(b, 1, 4)), Len(b) - 8)

\* C3: on a truncated buffer try_from returns an error value to its caller
\* (it neither aborts nor returns a Chunk).
C3_TruncatedIsError ==
    (cpc = "parsed" /\ Truncated(buf)) => cresult.kind = "err"

\* C10: try_from succeeds only on a buffer of exactly 12 + L bytes, L being
\* the length its first four bytes declare; a serialized chunk followed by
\* extra bytes is rejected with an error.
C10_ExactSize ==
    cpc = "parsed" =>
        /\ cresult.kind = "ok" =>
              /\ Len(buf) >= 12
              /\ from_be_bytes(SubSeq(buf, 1, 4)) = as_u32(Len(buf) - 12)
        /\ tamper.kind = "extend" => cresult.kind = "err"

C10_Witness ==
    /\ cpc = "parsed" /\ tamper.kind = "extend" /\ Len(tamper.extra) = 12
    /\ cresult.kind = "err"

(***************************************************************************)
(* Properties of SpecType                                                  *)
(***************************************************************************)
Letters == (65..90) \cup (97..122)

\* C4: from_str returns the InvalidChunkType error on every string whose
\* byte length is not 4, and on a 4-byte string with a non-letter byte.
C4_FromStrRejects ==
    (tinput.kind = "str" /\ tresult # None) =>
        LET b == as_bytes_str(tinput.val) IN
        (Len(b) # 4 \/ \E i \in 1..Len(b) : b[i] \notin Letters)
            => tresult = Err("InvalidChunkTypeError")

\* C5: try_from([u8; 4]) succeeds iff each byte is in 65..=90 or 97..=122,
\* whatever bit 5 of byte 2 is, and then bytes() gives back the input.
C5_TryFromBytes ==
    (tinput.kind = "bytes" /\ tresult # None) =>
        /\ tresult.kind = "ok" <=> \A i \in 1..4 : tinput.val[i] \in Letters
        /\ tresult.kind = "ok" => bytes(tresult.val) = tinput.val
        /\ tresult.kind # "ok" => tresult = Err("InvalidChunkTypeError")

\* "Rust", whose reserved bit is set, is constructed
C5_Witness ==
    /\ tinput = [kind |-> "bytes", val |-> <<82, 117, 115, 116>>]
    /\ tresult.kind = "ok"
    /\ bytes(tresult.val) = <<82, 117, 115, 116>>

\* bit 5 (0x20) of a byte is clear
Bit5Clear(b) == b % 64 < 32

\* C6: is_critical, is_public and is_reserved_bit_valid hold iff bit 5 of
\* byte 0, 1, 2 is clear, is_safe_to_copy iff bit 5 of byte 3 is set, and
\* is_valid iff is_reserved_bit_valid.
C6_PropertyBits ==
    tprops # None =>
        LET b == bytes(tresult.val) IN
        /\ tprops.critical <=> Bit5Clear(b[1])
        /\ tprops.public <=> Bit5Clear(b[2])
        /\ tprops.reserved <=> Bit5Clear(b[3])
        /\ tprops.safe <=> ~Bit5Clear(b[4])
        /\ tprops.valid <=> tprops.reserved

C6_Witness ==
    /\ tprops # None
    /\ bytes(tresult.val) = RuSt
    /\ tprops.critical /\ ~tprops.public /\ tprops.reserved
    /\ tprops.safe /\ tprops.valid

(***************************************************************************)
(* Properties of Spec                                                      *)
(***************************************************************************)
TypeOf(c) == bytes(c.chunk_type)

EndsWithIEND(cs) == cs # <<>> /\ TypeOf(cs[Len(cs)]) = IEND

\* C7: the chunk sequence of the file stays non-empty with an IEND chunk
\* last, whatever encode and remove commands are run on it.
C7_Terminator ==
    LET png == Png_try_from(file) IN
    png.kind = "ok" /\ EndsWithIEND(png.val.chunks)

Without(cs, i) == [k \in 1..(Len(cs) - 1) |-> IF k < i THEN cs[k] ELSE cs[k + 1]]

\* C8: remove takes out and returns exactly the first chunk whose type reads
\* as the given text and keeps the others in order; with no such chunk it
\* fails with ChunkNotFoundError, writes nothing and leaves the file as is.
C8_RemoveFirst ==
    (last.op = "remove" /\ Png_try_from(last.pre).kind = "ok") =>
        LET cs == Png_try_from(last.pre).val.chunks
            M  == {i \in 1..Len(cs) : TypeOf(cs[i]) = last.ct}
        IN IF M # {}
           THEN \E i \in M :
                   /\ \A j \in M : i <= j
                   /\ last.res.kind = "ok"
                   /\ last.removed = Ok(cs[i])
                   /\ last.wrote
                   /\ Png_try_from(file) = Ok([chunks |-> Without(cs, i)])
           ELSE /\ last.res = Err("ChunkNotFoundError")
                /\ ~last.wrote
                /\ file = last.pre

\* the first of two chunks of the removed type went, the second is still there
C8_Witness ==
    /\ last.op = "remove" /\ last.res.kind = "ok"
    /\ last.removed.val.data # <<>>
    /\ \E i \in 1..Len(Png_try_from(file).val.chunks) :
          /\ TypeOf(Png_try_from(file).val.chunks[i]) = last.ct
          /\ Png_try_from(file).val.chunks[i].data = <<>>

\* a file that parses, ends with IEND and has no chunk of type text ct
Fresh(file_bytes, ct) ==
    LET png == Png_try_from(file_bytes) IN
    /\ png.kind = "ok"
    /\ EndsWithIEND(png.val.chunks)
    /\ \A i \in 1..Len(png.val.chunks) : TypeOf(png.val.chunks[i]) # ct

\* C9: on a file ending with IEND and without a chunk of type t, encode of
\* (t, d) holds the original chunks with the new record just before IEND,
\* what it writes parses back to that sequence, and a remove of t right
\* after it restores the original chunks and the original bytes.
C9_AppendRemove ==
    /\ (last.op = "encode" /\ last.res.kind = "ok" /\ Fresh(last.pre, last.ct)) =>
          LET cs == Png_try_from(last.pre).val.chunks
              n  == Len(cs)
              c  == Chunk_new(ChunkType_from_str(last.ct).val, as_bytes_str(last.msg))
          IN /\ last.mem.val.chunks = SubSeq(cs, 1, n - 1) \o <<c, cs[n]>>
             /\ Png_try_from(Png_as_bytes(last.mem.val)) = Ok(last.mem.val)
             /\ last.wrote => Png_try_from(file) = Ok(last.mem.val)
    /\ ( /\ last.op = "remove" /\ last.after # None
         /\ last.after.ct = last.ct /\ Fresh(last.after.pre, last.ct) ) =>
          /\ last.res.kind = "ok"
          /\ file = last.after.pre
          /\ Png_try_from(file) = Png_try_from(last.after.pre)

C9_Witness ==
    /\ last.op = "remove" /\ last.after # None
    /\ last.after.ct = last.ct /\ last.ct = ruSt
    /\ Fresh(last.after.pre, last.ct)
    /\ Len(Png_try_from(last.after.pre).val.chunks) = 3
    /\ file = last.after.pre

====
